---- MODULE Spec2Model ----
(***************************************************************************)
(* The appointment ledger of the scheduler: the Pinia store                *)
(* (src/src/stores/appointments.ts) and its localStorage persistence       *)
(* (utils/localStorage.ts, src/unnamed/part_002 lines 128-172).            *)
(*                                                                         *)
(* An Appointment is a record over the eight fields of the TypeScript      *)
(* interface; a field an object does not have reads as Undefined, as       *)
(* a missing property reads as undefined in JavaScript.                    *)
(*                                                                         *)
(* The text kept under the storage key is a sequence of JSON tokens.       *)
(* JSONstringify writes it and JSONparse reads it back token by token, for *)
(* the JSON this program meets: a literal, a number, a string, a flat      *)
(* object with string values, and an array of such objects.                *)
(***************************************************************************)
EXTENDS Integers, Sequences, FiniteSets, TLC

\* The longest ledger the model books, the number of setItem calls that may
\* throw in one run, and the number of fetchDoctors calls that wait for
\* their response at a time (bounds of the model, not of the code).
MaxAppointments == 2
MaxSaveFailures == 1
MaxInFlight == 2

\* ------------------------------------------------------------------------
\* Appointments

Undefined == "<undefined>"

Fields ==
  << "id", "doctorName", "doctorTimezone", "date",
     "dayOfWeek", "startTime", "endTime", "bookedAt" >>

FieldSet == { Fields[k] : k \in 1..Len(Fields) }

\* An object with no property at all.
EmptyObject == [ f \in FieldSet |-> Undefined ]

mockAppointment ==
  [ id             |-> "1",
    doctorName     |-> "Dr. Smith",
    doctorTimezone |-> "America/New_York",
    date           |-> "2025-11-17",
    dayOfWeek      |-> "Monday",
    startTime      |-> "9:00 AM",
    endTime        |-> "9:30 AM",
    bookedAt       |-> "2025-11-14T10:00:00.000Z" ]

\* The appointments the callers pass: the tests' appointment, the same slot
\* under a second id or with another end time, and appointments that differ
\* from it in one field of the slot.
Ids == { "1", "2" }

AppointmentInputs ==
  { mockAppointment,
    [ mockAppointment EXCEPT !.id = "2" ],
    [ mockAppointment EXCEPT !.id = "2", !.endTime = "10:00 AM" ],
    [ mockAppointment EXCEPT !.doctorName = "dr. smith" ],
    [ mockAppointment EXCEPT !.id = "2", !.date = "2025-11-18" ],
    [ mockAppointment EXCEPT !.startTime = "9:00AM" ] }

\* The ids the callers cancel: an id is unknown to the ledger until an
\* appointment with it is booked.
CancelIds == Ids

\* ------------------------------------------------------------------------
\* JSON text

\* A token: its kind and its text.
Tok(kind, text) == << kind, text >>
Kind(tok) == tok[1]
Text(tok) == tok[2]
LBRACK == Tok("punct", "[")
RBRACK == Tok("punct", "]")
LBRACE == Tok("punct", "{")
RBRACE == Tok("punct", "}")
COMMA == Tok("punct", ",")
COLON == Tok("punct", ":")
Str(s) == Tok("str", s)
Num(s) == Tok("num", s)
Lit(s) == Tok("lit", s)
Bad(s) == Tok("bad", s)

\* The members of one object: its own properties in insertion order, a
\* property holding undefined left out.
RECURSIVE MemberTokens(_, _, _)
MemberTokens(a, k, first) ==
  IF k > Len(Fields) THEN << >>
  ELSE IF a[Fields[k]] = Undefined THEN MemberTokens(a, k + 1, first)
  ELSE (IF first THEN << >> ELSE << COMMA >>)
         \o << Str(Fields[k]), COLON, Str(a[Fields[k]]) >>
         \o MemberTokens(a, k + 1, FALSE)

ObjectTokens(a) == << LBRACE >> \o MemberTokens(a, 1, TRUE) \o << RBRACE >>

RECURSIVE ElementTokens(_, _)
ElementTokens(appts, k) ==
  IF k > Len(appts) THEN << >>
  ELSE (IF k = 1 THEN << >> ELSE << COMMA >>)
         \o ObjectTokens(appts[k]) \o ElementTokens(appts, k + 1)

\* JSON.stringify of an array of appointments.
JSONstringify(appts) == << LBRACK >> \o ElementTokens(appts, 1) \o << RBRACK >>

SyntaxError == [ ok |-> FALSE, isArray |-> FALSE, items |-> << >> ]
NonArray == [ ok |-> TRUE,  isArray |-> FALSE, items |-> << >> ]
ArrayOf(s) == [ ok |-> TRUE,  isArray |-> TRUE,  items |-> s ]

ParseFail == [ ok |-> FALSE, next |-> 0, obj |-> EmptyObject, items |-> << >> ]

\* "key" : "value" ( , "key" : "value" )* } from position i on.
RECURSIVE ParseMembers(_, _, _)
ParseMembers(text, i, obj) ==
  IF i + 3 > Len(text) THEN ParseFail
  ELSE IF Kind(text[i]) = "str" /\ text[i + 1] = COLON /\ Kind(text[i + 2]) = "str"
  THEN LET obj2 == IF Text(text[i]) \in FieldSet
                   THEN [ obj EXCEPT ![Text(text[i])] = Text(text[i + 2]) ]
                   ELSE obj
       IN  IF text[i + 3] = RBRACE
           THEN [ ok |-> TRUE, next |-> i + 4, obj |-> obj2, items |-> << >> ]
           ELSE IF text[i + 3] = COMMA
           THEN ParseMembers(text, i + 4, obj2)
           ELSE ParseFail
  ELSE ParseFail

\* An object whose opening brace is at position i.
ParseObject(text, i) ==
  IF i + 1 <= Len(text) /\ text[i + 1] = RBRACE
  THEN [ ok |-> TRUE, next |-> i + 2, obj |-> EmptyObject, items |-> << >> ]
  ELSE ParseMembers(text, i + 1, EmptyObject)

\* object ( , object )* ] from position i on.
RECURSIVE ParseElements(_, _, _)
ParseElements(text, i, items) ==
  IF i > Len(text) \/ text[i] # LBRACE THEN ParseFail
  ELSE LET r == ParseObject(text, i)
       IN  IF ~r.ok \/ r.next > Len(text) THEN ParseFail
           ELSE IF text[r.next] = RBRACK
           THEN [ ok |-> TRUE, next |-> r.next + 1, obj |-> EmptyObject,
                  items |-> Append(items, r.obj) ]
           ELSE IF text[r.next] = COMMA
           THEN ParseElements(text, r.next + 1, Append(items, r.obj))
           ELSE ParseFail

\* JSON.parse: ok = FALSE is the SyntaxError it throws.
JSONparse(text) ==
  IF Len(text) = 0 THEN SyntaxError
  ELSE IF Kind(text[1]) \in { "lit", "num", "str" }
  THEN IF Len(text) = 1 THEN NonArray ELSE SyntaxError
  ELSE IF text[1] = LBRACE
  THEN LET r == ParseObject(text, 1)
       IN  IF r.ok /\ r.next = Len(text) + 1 THEN NonArray ELSE SyntaxError
  ELSE IF text[1] = LBRACK
  THEN IF Len(text) >= 2 /\ text[2] = RBRACK
       THEN IF Len(text) = 2 THEN ArrayOf(<< >>) ELSE SyntaxError
       ELSE LET r == ParseElements(text, 2, << >>)
            IN  IF r.ok /\ r.next = Len(text) + 1
                THEN ArrayOf(r.items) ELSE SyntaxError
  ELSE SyntaxError

\* ------------------------------------------------------------------------
\* utils/localStorage.ts

\* The item under STORAGE_KEY: has = FALSE when the key is not set (getItem
\* returns null), else value is the text stored.
NoItem == [ has |-> FALSE, value |-> << >> ]
Item(text) == [ has |-> TRUE, value |-> text ]

SaveFailedLog == "Failed to save appointments to localStorage:"
LoadFailedLog == "Failed to load appointments from localStorage:"
NoLog == ""

\* saveAppointments with the item removed before the write: a throw of
\* setItem leaves the key unset.
saveAppointments_clearsOnFailure(storage, appts, setItemThrows) ==
  IF setItemThrows THEN NoItem ELSE Item(JSONstringify(appts))

\* saveAppointments: the item after the call. setItem either stores the
\* whole text or throws (quota exceeded) and stores nothing; the throw is
\* caught.
saveAppointments(storage, appts, setItemThrows) ==
  IF setItemThrows THEN storage ELSE Item(JSONstringify(appts))

\* What saveAppointments writes with console.error.
saveLogged(setItemThrows) == IF setItemThrows THEN SaveFailedLog ELSE NoLog

\* loadAppointments with the Array.isArray test inverted.
loadAppointments_invertedCheck(storage, getItemThrows) ==
  IF getItemThrows THEN << >>
  ELSE IF ~storage.has \/ Len(storage.value) = 0 THEN << >>
  ELSE LET parsed == JSONparse(storage.value)
       IN  IF ~parsed.ok THEN << >>
           ELSE IF parsed.isArray THEN << >> ELSE parsed.items

\* loadAppointments: a throw of getItem or of JSON.parse is caught.
loadAppointments(storage, getItemThrows) ==
  IF getItemThrows THEN << >>
  ELSE IF ~storage.has \/ Len(storage.value) = 0 THEN << >>
  ELSE LET parsed == JSONparse(storage.value)
       IN  IF ~parsed.ok THEN << >>
           ELSE IF parsed.isArray THEN parsed.items ELSE << >>

\* What loadAppointments writes with console.error.
loadLogged(storage, getItemThrows) ==
  IF getItemThrows THEN LoadFailedLog
  ELSE IF ~storage.has \/ Len(storage.value) = 0 THEN NoLog
  ELSE IF ~JSONparse(storage.value).ok THEN LoadFailedLog ELSE NoLog

\* The environment: reading the item does not throw. (localStorage throws
\* on reads only where it is disabled altogether, and there nothing is ever
\* stored.) Writing may throw at any call.
GetItemThrows == { FALSE }
SetItemThrows == BOOLEAN

\* ------------------------------------------------------------------------
\* stores/appointments.ts

SlotBookedMsg == "This time slot is already booked"
NotFoundMsg == "Appointment not found"
NoError == ""

\* How a store action ends: the ledger and the stored item it leaves, the
\* message of the Error it throws (NoError when it returns) and what it
\* wrote with console.error.
Outcome(appts, storage, thrown, logged) ==
  [ appointments |-> appts, localStorage |-> storage,
    thrown |-> thrown, logged |-> logged ]

\* isAlreadyBooked comparing the end time as well, as isSlotBooked does.
isAlreadyBooked_alsoEndTime(appts, appointment) ==
  \E k \in 1..Len(appts) :
    /\ appts[k].doctorName = appointment.doctorName
    /\ appts[k].date = appointment.date
    /\ appts[k].startTime = appointment.startTime
    /\ appts[k].endTime = appointment.endTime

\* isAlreadyBooked without the comparison of the date.
isAlreadyBooked_ignoresDate(appts, appointment) ==
  \E k \in 1..Len(appts) :
    /\ appts[k].doctorName = appointment.doctorName
    /\ appts[k].startTime = appointment.startTime

\* appointments.value.some(...) of bookAppointment
isAlreadyBooked(appts, appointment) ==
  \E k \in 1..Len(appts) :
    /\ appts[k].doctorName = appointment.doctorName
    /\ appts[k].date = appointment.date
    /\ appts[k].startTime = appointment.startTime

\* findLastIndex in place of findIndex.
findIndex_last(appts, appointmentId) ==
  IF \E k \in 1..Len(appts) : appts[k].id = appointmentId
  THEN (CHOOSE k \in 1..Len(appts) :
          /\ appts[k].id = appointmentId
          /\ \A j \in (k + 1)..Len(appts) : appts[j].id # appointmentId) - 1
  ELSE -1

\* Array.prototype.findIndex on the id: the first index (from 0), or -1.
findIndex(appts, appointmentId) ==
  IF \E k \in 1..Len(appts) : appts[k].id = appointmentId
  THEN (CHOOSE k \in 1..Len(appts) :
          /\ appts[k].id = appointmentId
          /\ \A j \in 1..(k - 1) : appts[j].id # appointmentId) - 1
  ELSE -1

\* An assignment of [appointment] in place of the push.
push_replaces(appts, appointment) == << appointment >>

\* Array.prototype.push
push(appts, appointment) == Append(appts, appointment)

\* splice(index + 1, 1): the entry after the one found.
splice_offByOne(appts, index) ==
  SubSeq(appts, 1, index + 1) \o SubSeq(appts, index + 3, Len(appts))

\* splice(0, 1): the first entry, whatever the index found.
splice_removesFirst(appts, index) == SubSeq(appts, 2, Len(appts))

\* Array.prototype.splice(index, 1), index from 0
splice(appts, index) ==
  SubSeq(appts, 1, index) \o SubSeq(appts, index + 2, Len(appts))

\* initializeStore that leaves the loaded snapshot doubled in the ledger.
initializeStore_loadsTwice(storage, getItemThrows) ==
  Outcome(loadAppointments(storage, getItemThrows)
            \o loadAppointments(storage, getItemThrows),
          storage, NoError, loadLogged(storage, getItemThrows))

initializeStore(storage, getItemThrows) ==
  Outcome(loadAppointments(storage, getItemThrows), storage, NoError,
          loadLogged(storage, getItemThrows))

\* bookAppointment with the check after the push and the save.
bookAppointment_throwsAfterPush(appts, storage, appointment, setItemThrows) ==
  LET pushed == push(appts, appointment)
  IN  Outcome(pushed, saveAppointments(storage, pushed, setItemThrows),
              IF isAlreadyBooked(appts, appointment) THEN SlotBookedMsg ELSE NoError,
              saveLogged(setItemThrows))

\* bookAppointment with the save before the push.
bookAppointment_savesBeforePush(appts, storage, appointment, setItemThrows) ==
  IF isAlreadyBooked(appts, appointment)
  THEN Outcome(appts, storage, SlotBookedMsg, NoLog)
  ELSE Outcome(push(appts, appointment),
               saveAppointments(storage, appts, setItemThrows),
               NoError, saveLogged(setItemThrows))

\* bookAppointment that looks into the store's snapshot as well as into its
\* own ledger before it accepts.
bookAppointment_checksSnapshot(appts, storage, appointment, setItemThrows) ==
  IF \/ isAlreadyBooked(appts, appointment)
     \/ isAlreadyBooked(loadAppointments(storage, FALSE), appointment)
  THEN Outcome(appts, storage, SlotBookedMsg, NoLog)
  ELSE LET pushed == push(appts, appointment)
       IN  Outcome(pushed, saveAppointments(storage, pushed, setItemThrows),
                   NoError, saveLogged(setItemThrows))

bookAppointment(appts, storage, appointment, setItemThrows) ==
  IF isAlreadyBooked(appts, appointment)
  THEN Outcome(appts, storage, SlotBookedMsg, NoLog)
  ELSE LET pushed == push(appts, appointment)
       IN  Outcome(pushed, saveAppointments(storage, pushed, setItemThrows),
                   NoError, saveLogged(setItemThrows))

cancelAppointment(appts, storage, appointmentId, setItemThrows) ==
  LET index == findIndex(appts, appointmentId)
  IN  IF index = -1
      THEN Outcome(appts, storage, NotFoundMsg, NoLog)
      ELSE LET spliced == splice(appts, index)
           IN  Outcome(spliced, saveAppointments(storage, spliced, setItemThrows),
                       NoError, saveLogged(setItemThrows))

\* ------------------------------------------------------------------------
\* utils/timeSlots.ts (src/unnamed/part_002 lines 1-126)
\* A time text is a string; its characters are read one by one.

CharAt(s, k) == SubSeq(s, k, k)

WhiteSpace == { " ", "\t", "\n" }

DigitChars == << "0", "1", "2", "3", "4", "5", "6", "7", "8", "9" >>

IsDigit(c) == \E k \in 1..Len(DigitChars) : DigitChars[k] = c

DigitValue(c) == (CHOOSE k \in 1..Len(DigitChars) : DigitChars[k] = c) - 1

LowerCase == << "a", "m", "p" >>
UpperCase == << "A", "M", "P" >>

\* String.prototype.toUpperCase on one character of a period.
toUpperCase(c) ==
  IF \E k \in 1..Len(LowerCase) : LowerCase[k] = c
  THEN UpperCase[CHOOSE k \in 1..Len(LowerCase) : LowerCase[k] = c]
  ELSE c

\* timeString.trim().replace(/\s+/g, ''): the text without its white space.
RECURSIVE replaceWhiteSpace(_)
replaceWhiteSpace(s) ==
  IF Len(s) = 0 THEN ""
  ELSE IF CharAt(s, 1) \in WhiteSpace
       THEN replaceWhiteSpace(SubSeq(s, 2, Len(s)))
       ELSE CharAt(s, 1) \o replaceWhiteSpace(SubSeq(s, 2, Len(s)))

AllDigits(s) == \A k \in 1..Len(s) : IsDigit(CharAt(s, k))

\* parseInt(s, 10) of a text of digits.
RECURSIVE parseInt(_)
parseInt(s) ==
  IF Len(s) = 0 THEN 0
  ELSE 10 * parseInt(SubSeq(s, 1, Len(s) - 1)) + DigitValue(CharAt(s, Len(s)))

NoMatch == [ ok |-> FALSE, hour |-> "", minute |-> "", period |-> "" ]

\* cleaned.match(/^(\d{1,2}):(\d{2})(AM|PM)$/i): the three groups.
match(cleaned) ==
  LET n == Len(cleaned)
      hour == SubSeq(cleaned, 1, n - 5)
      minute == SubSeq(cleaned, n - 3, n - 2)
      period == SubSeq(cleaned, n - 1, n)
  IN  IF /\ n \in { 6, 7 }
         /\ AllDigits(hour)
         /\ CharAt(cleaned, n - 4) = ":"
         /\ AllDigits(minute)
         /\ toUpperCase(CharAt(period, 1)) \in { "A", "P" }
         /\ toUpperCase(CharAt(period, 2)) = "M"
      THEN [ ok |-> TRUE, hour |-> hour, minute |-> minute, period |-> period ]
      ELSE NoMatch

InvalidTimeMsg(timeString) == "Invalid time format: " \o timeString

\* parseTime with the 24-hour conversion that turns every PM hour, noon
\* included, into hour + 12.
parseTime_noonPlus12(timeString) ==
  LET m == match(replaceWhiteSpace(timeString))
  IN  IF ~m.ok
      THEN [ thrown |-> InvalidTimeMsg(timeString), hours |-> 0, minutes |-> 0 ]
      ELSE LET hours == parseInt(m.hour)
               period == toUpperCase(CharAt(m.period, 1)) \o toUpperCase(CharAt(m.period, 2))
           IN  [ thrown |-> NoError,
                 hours |-> IF period = "PM" THEN hours + 12
                           ELSE IF period = "AM" /\ hours = 12 THEN 0
                           ELSE hours,
                 minutes |-> parseInt(m.minute) ]

\* parseTime: hours and minutes, or the error thrown.
parseTime(timeString) ==
  LET m == match(replaceWhiteSpace(timeString))
  IN  IF ~m.ok
      THEN [ thrown |-> InvalidTimeMsg(timeString), hours |-> 0, minutes |-> 0 ]
      ELSE LET hours == parseInt(m.hour)
               period == toUpperCase(CharAt(m.period, 1)) \o toUpperCase(CharAt(m.period, 2))
           IN  [ thrown |-> NoError,
                 hours |-> IF period = "PM" /\ hours # 12 THEN hours + 12
                           ELSE IF period = "AM" /\ hours = 12 THEN 0
                           ELSE hours,
                 minutes |-> parseInt(m.minute) ]

\* Number.prototype.toString of a natural number.
RECURSIVE toString(_)
toString(n) ==
  IF n < 10 THEN DigitChars[n + 1]
  ELSE toString(n \div 10) \o DigitChars[(n % 10) + 1]

\* padStart(2, '0')
padStart(s) == IF Len(s) < 2 THEN "0" \o s ELSE s

formatTime(hours, minutes) ==
  LET period == IF hours >= 12 THEN "PM" ELSE "AM"
      displayHours == IF hours = 0 THEN 12
                      ELSE IF hours > 12 THEN hours - 12 ELSE hours
  IN  toString(displayHours) \o ":" \o padStart(toString(minutes)) \o " " \o period

\* A TimeSlot; date is the optional property.
TimeSlot(startTime, endTime) ==
  [ startTime |-> startTime, endTime |-> endTime,
    isAvailable |-> TRUE, isBooked |-> FALSE, date |-> Undefined ]

\* The loop with the test currentTotalMinutes <= endTotalMinutes.
RECURSIVE GenerateLoop_inclusive(_, _, _, _, _)
GenerateLoop_inclusive(currentTotalMinutes, currentHours, currentMinutes, endTotalMinutes, slots) ==
  IF currentTotalMinutes <= endTotalMinutes
  THEN LET slotStart == formatTime(currentHours, currentMinutes)
           nextTotal == currentTotalMinutes + 30
           nextHours == nextTotal \div 60
           nextMinutes == nextTotal % 60
           slotEnd == formatTime(nextHours, nextMinutes)
       IN  GenerateLoop_inclusive(nextTotal, nextHours, nextMinutes, endTotalMinutes,
                                  Append(slots, TimeSlot(slotStart, slotEnd)))
  ELSE slots

\* The while loop of generateTimeSlots.
RECURSIVE GenerateLoop(_, _, _, _, _)
GenerateLoop(currentTotalMinutes, currentHours, currentMinutes, endTotalMinutes, slots) ==
  IF currentTotalMinutes < endTotalMinutes
  THEN LET slotStart == formatTime(currentHours, currentMinutes)
           nextTotal == currentTotalMinutes + 30
           nextHours == nextTotal \div 60
           nextMinutes == nextTotal % 60
           slotEnd == formatTime(nextHours, nextMinutes)
       IN  GenerateLoop(nextTotal, nextHours, nextMinutes, endTotalMinutes,
                        Append(slots, TimeSlot(slotStart, slotEnd)))
  ELSE slots

\* generateTimeSlots: the slots, or the error parseTime threw.
generateTimeSlots(startTime, endTime) ==
  LET start == parseTime(startTime)
      end == parseTime(endTime)
  IN  IF start.thrown # NoError THEN [ thrown |-> start.thrown, slots |-> << >> ]
      ELSE IF end.thrown # NoError THEN [ thrown |-> end.thrown, slots |-> << >> ]
      ELSE [ thrown |-> NoError,
             slots |-> GenerateLoop(start.hours * 60 + start.minutes,
                                    start.hours, start.minutes,
                                    end.hours * 60 + end.minutes, << >>) ]

\* The comparison without the date.
isSlotBooked_ignoresDate(slot, date, doctorName, appts) ==
  \E k \in 1..Len(appts) :
    /\ appts[k].doctorName = doctorName
    /\ appts[k].startTime = slot.startTime
    /\ appts[k].endTime = slot.endTime

\* The comparison without the end time.
isSlotBooked_ignoresEndTime(slot, date, doctorName, appts) ==
  \E k \in 1..Len(appts) :
    /\ appts[k].doctorName = doctorName
    /\ appts[k].date = date
    /\ appts[k].startTime = slot.startTime

isSlotBooked(slot, date, doctorName, appts) ==
  \E k \in 1..Len(appts) :
    /\ appts[k].doctorName = doctorName
    /\ appts[k].date = date
    /\ appts[k].startTime = slot.startTime
    /\ appts[k].endTime = slot.endTime

markBookedSlots(slots, date, doctorName, appts) ==
  [ k \in 1..Len(slots) |->
      [ slots[k] EXCEPT !.isBooked = isSlotBooked(slots[k], date, doctorName, appts),
                        !.isAvailable = ~isSlotBooked(slots[k], date, doctorName, appts) ] ]

\* ------------------------------------------------------------------------
\* Dates (utils/dateHelpers.ts) and the weekly grid (TimeSlotGrid.vue)

\* A Date in local time: getFullYear(), getMonth() (from 0) and getDate().
Date(year, month, date) == [ year |-> year, month |-> month, date |-> date ]

IsLeapYear(year) == (year % 4 = 0 /\ year % 100 # 0) \/ year % 400 = 0

DaysInMonth(year, month) ==
  IF month = 1 THEN (IF IsLeapYear(year) THEN 29 ELSE 28)
  ELSE IF month \in { 3, 5, 8, 10 } THEN 30 ELSE 31

\* Date.prototype.setDate with a day of at least 1: days past the end of the
\* month run into the next months.
RECURSIVE setDate(_, _)
setDate(d, dayValue) ==
  IF dayValue <= DaysInMonth(d.year, d.month)
  THEN [ d EXCEPT !.date = dayValue ]
  ELSE setDate(IF d.month = 11
               THEN [ d EXCEPT !.year = @ + 1, !.month = 0 ]
               ELSE [ d EXCEPT !.month = @ + 1 ],
               dayValue - DaysInMonth(d.year, d.month))

\* Days from Monday 2024-01-01 to a date of 2024 or later.
RECURSIVE DaysBeforeMonth(_, _)
DaysBeforeMonth(year, month) ==
  IF month = 0 THEN 0
  ELSE DaysBeforeMonth(year, month - 1) + DaysInMonth(year, month - 1)

DaysBeforeYear(year) ==
  365 * (year - 2024) + Cardinality({ y \in 2024..(year - 1) : IsLeapYear(y) })

\* Date.prototype.getDay: 0 is Sunday.
getDay(d) ==
  (1 + DaysBeforeYear(d.year) + DaysBeforeMonth(d.year, d.month) + (d.date - 1)) % 7

days ==
  << "Sunday", "Monday", "Tuesday", "Wednesday", "Thursday", "Friday", "Saturday" >>

getDayOfWeek(d) == days[getDay(d) + 1]

formatDate(d) ==
  toString(d.year) \o "-" \o padStart(toString(d.month + 1))
                   \o "-" \o padStart(toString(d.date))

\* toLocaleDateString('en-US', { weekday: 'short', year: 'numeric',
\* month: 'short', day: 'numeric' }), as in "Mon, Nov 17, 2025".
ShortWeekdays == << "Sun", "Mon", "Tue", "Wed", "Thu", "Fri", "Sat" >>
ShortMonths ==
  << "Jan", "Feb", "Mar", "Apr", "May", "Jun",
     "Jul", "Aug", "Sep", "Oct", "Nov", "Dec" >>

formatDisplayDate(d) ==
  ShortWeekdays[getDay(d) + 1] \o ", " \o ShortMonths[d.month + 1] \o " "
    \o toString(d.date) \o ", " \o toString(d.year)

\* The loop from 1 to 7: the week from tomorrow.
getNextWeekDates_fromTomorrow(today) ==
  [ i \in 1..7 |-> setDate(today, today.date + i) ]

\* getNextWeekDates with new Date() = today.
getNextWeekDates(today) ==
  [ i \in 1..7 |-> setDate(today, today.date + (i - 1)) ]

\* schedule: null
NoSchedule == [ dayOfWeek |-> "<null>", availableAt |-> "<null>", availableUntil |-> "<null>" ]

\* find that keeps looking and returns the last schedule of the day name.
RECURSIVE find_last(_, _)
find_last(schedules, dayName) ==
  IF schedules = << >> THEN NoSchedule
  ELSE IF find_last(Tail(schedules), dayName) # NoSchedule
  THEN find_last(Tail(schedules), dayName)
  ELSE IF Head(schedules).dayOfWeek = dayName THEN Head(schedules)
  ELSE NoSchedule

\* Array.prototype.find: the first schedule of the day name.
RECURSIVE find(_, _)
find(schedules, dayName) ==
  IF schedules = << >> THEN NoSchedule
  ELSE IF Head(schedules).dayOfWeek = dayName THEN Head(schedules)
  ELSE find(Tail(schedules), dayName)

\* What generateTimeSlots throws in the turn of weekDates.value.forEach for
\* a date, if it throws.
DayThrown(d, doc) ==
  LET schedule == find(doc.schedules, getDayOfWeek(d))
  IN  IF schedule # NoSchedule
      THEN generateTimeSlots(schedule.availableAt, schedule.availableUntil).thrown
      ELSE NoError

\* The entry that turn pushes when nothing is thrown.
DayInfo(d, doc, appts) ==
  LET dayName == getDayOfWeek(d)
      dateString == formatDate(d)
      schedule == find(doc.schedules, dayName)
  IN  [ date |-> d,
        dateString |-> dateString,
        dayName |-> dayName,
        displayDate |-> formatDisplayDate(d),
        schedule |-> schedule,
        slots |-> IF schedule # NoSchedule
                  THEN markBookedSlots(
                         generateTimeSlots(schedule.availableAt,
                                           schedule.availableUntil).slots,
                         dateString, doc.name, appts)
                  ELSE << >> ]

\* The computed slotsPerDay: the entries in the order of the dates, or the
\* error of the first date whose window does not parse.
slotsPerDayOf(doc, appts, dates) ==
  LET failed == { i \in 1..Len(dates) : DayThrown(dates[i], doc) # NoError }
  IN  IF failed # {}
      THEN [ thrown |-> DayThrown(dates[CHOOSE i \in failed : \A j \in failed : i <= j], doc),
             result |-> << >> ]
      ELSE [ thrown |-> NoError,
             result |-> [ i \in 1..Len(dates) |-> DayInfo(dates[i], doc, appts) ] ]

\* ------------------------------------------------------------------------
\* The doctor catalog (services/api.ts)

\* String.prototype.trim
RECURSIVE trimStart(_)
trimStart(s) ==
  IF s # "" /\ CharAt(s, 1) \in WhiteSpace THEN trimStart(SubSeq(s, 2, Len(s))) ELSE s

RECURSIVE trimEnd(_)
trimEnd(s) ==
  IF s # "" /\ CharAt(s, Len(s)) \in WhiteSpace THEN trimEnd(SubSeq(s, 1, Len(s) - 1)) ELSE s

trim(s) == trimEnd(trimStart(s))

\* A DoctorScheduleRaw.
Raw(name, timezone, day_of_week, available_at, available_until) ==
  [ name |-> name, timezone |-> timezone, day_of_week |-> day_of_week,
    available_at |-> available_at, available_until |-> available_until ]

\* doctorMap.has(name), and the place of the name among the keys of the Map,
\* which keeps them in the order they were set first.
has(doctorMap, name) == \E k \in 1..Len(doctorMap) : doctorMap[k].name = name

KeyIndex(doctorMap, name) == CHOOSE k \in 1..Len(doctorMap) : doctorMap[k].name = name

\* The forEach with doctorMap.set run for every record: a doctor seen again
\* starts with no schedules.
RECURSIVE GroupLoop_setsAlways(_, _)
GroupLoop_setsAlways(schedules, doctorMap) ==
  IF schedules = << >> THEN doctorMap
  ELSE LET schedule == Head(schedules)
           fresh == [ name |-> schedule.name, timezone |-> schedule.timezone,
                      schedules |-> << >> ]
           withDoctor == IF ~has(doctorMap, schedule.name)
                         THEN Append(doctorMap, fresh)
                         ELSE [ doctorMap EXCEPT ![KeyIndex(doctorMap, schedule.name)] = fresh ]
           k == KeyIndex(withDoctor, schedule.name)
       IN  GroupLoop_setsAlways(Tail(schedules),
             [ withDoctor EXCEPT ![k].schedules =
                 Append(@, [ dayOfWeek |-> schedule.day_of_week,
                             availableAt |-> trim(schedule.available_at),
                             availableUntil |-> trim(schedule.available_until) ]) ])

\* schedules.forEach of groupSchedulesByDoctor.
RECURSIVE GroupLoop(_, _)
GroupLoop(schedules, doctorMap) ==
  IF schedules = << >> THEN doctorMap
  ELSE LET schedule == Head(schedules)
           withDoctor == IF ~has(doctorMap, schedule.name)
                         THEN Append(doctorMap,
                                     [ name |-> schedule.name,
                                       timezone |-> schedule.timezone,
                                       schedules |-> << >> ])
                         ELSE doctorMap
           k == KeyIndex(withDoctor, schedule.name)
       IN  GroupLoop(Tail(schedules),
             [ withDoctor EXCEPT ![k].schedules =
                 Append(@, [ dayOfWeek |-> schedule.day_of_week,
                             availableAt |-> trim(schedule.available_at),
                             availableUntil |-> trim(schedule.available_until) ]) ])

groupSchedulesByDoctor(schedules) == GroupLoop(schedules, << >>)

\* What a promise is rejected with or a function throws: an Error with its
\* message, or another value.
Thrown(isError, message) == [ thrown |-> TRUE, isError |-> isError, message |-> message ]
NotThrown == [ thrown |-> FALSE, isError |-> FALSE, message |-> "" ]

\* The body response.json() gives: an array of records, or another value.
Body(isArray, records) == [ isArray |-> isArray, records |-> records ]

\* What fetch(API_URL) does: it is rejected, or it gives a response with ok,
\* status, statusText and a json() that is rejected or gives a body.
Response(kind, rejected, ok, status, statusText, jsonRejected, data) ==
  [ kind |-> kind, rejected |-> rejected, ok |-> ok, status |-> status,
    statusText |-> statusText, jsonRejected |-> jsonRejected, data |-> data ]

HttpErrorPrefix == "Failed to fetch doctors: "
ErrorPrefix == "Error fetching doctors: "
UnknownErrorMsg == "Unknown error occurred while fetching doctors"
FallbackMsg == "Failed to fetch doctors"
NotAFunctionMsg == "schedules.forEach is not a function"

\* The catch of fetchDoctorSchedules.
Rethrown(caught) ==
  IF caught.isError THEN Thrown(TRUE, ErrorPrefix \o caught.message)
  ELSE Thrown(TRUE, UnknownErrorMsg)

\* fetchDoctorSchedules: everything thrown in the try block, the error of a
\* response that is not ok too, is caught and thrown again by the catch.
fetchDoctorSchedules(response) ==
  LET caught ==
        IF response.rejected.thrown THEN response.rejected
        ELSE IF ~response.ok
        THEN Thrown(TRUE, HttpErrorPrefix \o toString(response.status)
                            \o " " \o response.statusText)
        ELSE response.jsonRejected
  IN  IF caught.thrown
      THEN [ thrown |-> Rethrown(caught), data |-> Body(FALSE, << >>) ]
      ELSE [ thrown |-> NotThrown, data |-> response.data ]

\* fetchDoctors of the api: a body that is no array has no forEach.
apiFetchDoctors(response) ==
  LET rawSchedules == fetchDoctorSchedules(response)
  IN  IF rawSchedules.thrown.thrown
      THEN [ thrown |-> rawSchedules.thrown, doctors |-> << >> ]
      ELSE IF ~rawSchedules.data.isArray
      THEN [ thrown |-> Thrown(TRUE, NotAFunctionMsg), doctors |-> << >> ]
      ELSE [ thrown |-> NotThrown,
             doctors |-> groupSchedulesByDoctor(rawSchedules.data.records) ]

\* The rest of fetchDoctors with a try that keeps a catalog that is filled
\* already.
settleFetchDoctors_keepsFilled(catalog, message, response) ==
  LET r == apiFetchDoctors(response)
  IN  [ doctors |-> IF r.thrown.thrown \/ catalog # << >> THEN catalog ELSE r.doctors,
        error |-> IF ~r.thrown.thrown THEN message
                  ELSE IF r.thrown.isError THEN r.thrown.message ELSE FallbackMsg,
        loading |-> FALSE,
        thrown |-> IF r.thrown.thrown THEN r.thrown.message ELSE NoError ]

\* The rest of fetchDoctors of the store once the response is there: the
\* try, the catch, which leaves doctors.value alone, and the finally.
settleFetchDoctors(catalog, message, response) ==
  LET r == apiFetchDoctors(response)
  IN  [ doctors |-> IF r.thrown.thrown THEN catalog ELSE r.doctors,
        error |-> IF ~r.thrown.thrown THEN message
                  ELSE IF r.thrown.isError THEN r.thrown.message ELSE FallbackMsg,
        loading |-> FALSE,
        thrown |-> IF r.thrown.thrown THEN r.thrown.message ELSE NoError ]

\* ------------------------------------------------------------------------
\* The derived views of the ledger (stores/appointments.ts)

\* Instants are time values in whole minutes since 1970-01-01T00:00Z: the
\* milliseconds of getTime() over 60000.

\* The number the digits of s from place first to place last spell.
RECURSIVE NumberAt(_, _, _)
NumberAt(s, first, last) ==
  IF last < first THEN 0
  ELSE 10 * NumberAt(s, first, last - 1) + DigitValue(CharAt(s, last))

\* The date-only form of the date-time string format: YYYY-MM-DD.
IsDateOnly(s) ==
  /\ s # Undefined
  /\ Len(s) = 10
  /\ CharAt(s, 5) = "-"
  /\ CharAt(s, 8) = "-"
  /\ \A k \in { 1, 2, 3, 4, 6, 7, 9, 10 } : IsDigit(CharAt(s, k))
  /\ NumberAt(s, 1, 4) >= 1970
  /\ NumberAt(s, 6, 7) \in 1..12
  /\ NumberAt(s, 9, 10) \in 1..DaysInMonth(NumberAt(s, 1, 4), NumberAt(s, 6, 7) - 1)

\* The days from 1970-01-01 to the first day of the year.
DaysSinceEpoch(year) ==
  365 * (year - 1970) + Cardinality({ y \in 1970..(year - 1) : IsLeapYear(y) })

InvalidDate == [ valid |-> FALSE, time |-> 0 ]

\* new Date(value) for what the date of an appointment can hold: a date-only
\* text is taken as midnight UTC of that day; a missing date (undefined)
\* and a text that is no date give an Invalid Date, whose time is NaN.
\* (Texts of other forms that Date.parse accepts are not among the inputs.)
newDate(value) ==
  IF IsDateOnly(value)
  THEN [ valid |-> TRUE,
         time |-> ( DaysSinceEpoch(NumberAt(value, 1, 4))
                    + DaysBeforeMonth(NumberAt(value, 1, 4), NumberAt(value, 6, 7) - 1)
                    + (NumberAt(value, 9, 10) - 1) ) * 24 * 60 ]
  ELSE InvalidDate

\* apptDate >= instant and apptDate < instant: a comparison with NaN is
\* false either way.
AtOrAfter(apptDate, instant) == apptDate.valid /\ apptDate.time >= instant
Before(apptDate, instant) == apptDate.valid /\ apptDate.time < instant

\* Array.prototype.filter: a new array of the entries that pass, in order.
filter(appts, Pass(_)) == SelectSeq(appts, Pass)

\* What the comparator (a, b) => sign * (time(a) - time(b)) returns; a NaN
\* counts as 0.
Compare(a, b, sign) ==
  IF newDate(a.date).valid /\ newDate(b.date).valid
  THEN sign * (newDate(a.date).time - newDate(b.date).time)
  ELSE 0

\* Array.prototype.sort, which is stable: an entry comes after those the
\* comparator puts before it and after the equal ones that stood before it.
sort(list, sign) ==
  LET Rank(k) ==
        Cardinality({ j \in 1..Len(list) :
                        \/ Compare(list[j], list[k], sign) < 0
                        \/ Compare(list[j], list[k], sign) = 0 /\ j < k }) + 1
  IN  [ i \in 1..Len(list) |-> list[CHOOSE k \in 1..Len(list) : Rank(k) = i] ]

\* The getter of upcomingAppointments with > in place of >=.
upcomingGetter_strictlyAfter(appts, instant) ==
  LET Pass(appt) == newDate(appt.date).valid /\ newDate(appt.date).time > instant
  IN  sort(filter(appts, Pass), 1)

\* The getter of the computed upcomingAppointments, run at the instant
\* new Date() gives.
upcomingGetter(appts, instant) ==
  LET Pass(appt) == AtOrAfter(newDate(appt.date), instant)
  IN  sort(filter(appts, Pass), 1)

\* The getter of the computed pastAppointments.
pastGetter(appts, instant) ==
  LET Pass(appt) == Before(newDate(appt.date), instant)
  IN  sort(filter(appts, Pass), -1)

\* The getter of the computed appointmentCount.
appointmentCount(appts) == Len(appts)

\* ------------------------------------------------------------------------
\* The store in its environment

VARIABLES
  appointments,   \* appointments.value: the ledger, in booking order
  localStorage,   \* the item under STORAGE_KEY
  lastCall,       \* the last store action called, the id it was given, how
                  \* many entries carried that id when it was called, and
                  \* how it ended
  cancelledIds,   \* history: the ids cancelAppointment has removed an entry of
  saveFailures,   \* history: how many setItem calls have thrown
  doctors,        \* doctors.value: the catalog
  loading,        \* loading.value
  error,          \* error.value: a message, or Null
  inFlight,       \* the calls of fetchDoctors that wait for their response, in
                  \* the order they were started; history: for each, whether
                  \* a call started after it has ended already
  doctor,         \* props.doctor of the TimeSlotGrid on screen
  weekDates,      \* weekDates.value of that grid
  slotsPerDay,    \* slotsPerDay.value of that grid
  selectedSlot,   \* selectedSlot.value of the doctor's page
  bookingSuccess, \* bookingSuccess.value
  bookingError,   \* bookingError.value: a message, or Null
  window,         \* the two time texts the time utilities are called with
  parsed,         \* what parseTime returned last
  slots,          \* the slots generateTimeSlots returned last
  marked,         \* what markBookedSlots was called with and returned last
  otherAppointments,    \* appointments.value of the store of a second tab
                        \* of the same browser, which shares localStorage
  now,                  \* the clock: what new Date().getTime() gives
  timezoneOffset,       \* the browser's getTimezoneOffset(), in minutes
  upcomingAppointments, \* what the computed holds and the instant it was
                        \* computed at
  pastAppointments      \* the same for the past appointments

storeVars == << appointments, localStorage, lastCall, cancelledIds, saveFailures >>
fetchVars == << doctors, loading, error, inFlight >>
gridVars == << doctor, weekDates, slotsPerDay, selectedSlot, bookingSuccess, bookingError >>
timeVars == << window, parsed, slots, marked >>

tabVars == << otherAppointments >>
viewVars == << now, timezoneOffset, upcomingAppointments, pastAppointments >>

vars == << storeVars, fetchVars, gridVars, timeVars, tabVars, viewVars >>

Null == "<null>"

\* The catalog part of the store after its setup: no doctor, no fetch.
NoFetch ==
  /\ doctors = << >>
  /\ loading = FALSE
  /\ error = Null
  /\ inFlight = << >>

\* No grid is mounted.
NoDoctor == [ name |-> "", timezone |-> "", schedules |-> << >> ]

\* selectedSlot.value = null
NoSlot ==
  [ startTime |-> Null, endTime |-> Null, isAvailable |-> FALSE,
    isBooked |-> FALSE, date |-> Null, dayOfWeek |-> Null ]

NoGrid ==
  /\ doctor = NoDoctor
  /\ weekDates = << >>
  /\ slotsPerDay = << >>
  /\ selectedSlot = NoSlot
  /\ bookingSuccess = FALSE
  /\ bookingError = Null

\* There is no second tab.
NoOtherTab == otherAppointments = << >>

\* A computed nobody has read yet.
NotComputed == [ at |-> -1, value |-> << >> ]

\* No derived view has been read; the clock is of no concern.
NoViews ==
  /\ now = 0
  /\ timezoneOffset = 0
  /\ upcomingAppointments = NotComputed
  /\ pastAppointments = NotComputed

\* No time utility has been called.
NoWindow == [ availableAt |-> "", availableUntil |-> "" ]
NoParse == [ timeString |-> "", thrown |-> "", hours |-> 0, minutes |-> 0 ]
NoMarked == [ date |-> "", doctorName |-> "", slots |-> << >> ]

NoTimeCall ==
  /\ window = NoWindow
  /\ parsed = NoParse
  /\ slots = << >>
  /\ marked = NoMarked

Matches(appts, id) == Cardinality({ k \in 1..Len(appts) : appts[k].id = id })

Call(op, id, matches, r) ==
  [ op |-> op, id |-> id, matches |-> matches,
    thrown |-> r.thrown, logged |-> r.logged ]

NoCall ==
  [ op |-> "none", id |-> Undefined, matches |-> 0,
    thrown |-> NoError, logged |-> NoLog ]

\* The effect of a store action with outcome r on the ledger and its storage.
LedgerReturns(op, id, r) ==
  /\ Len(r.appointments) <= Len(appointments) \/ Len(r.appointments) <= MaxAppointments
  /\ r.logged = SaveFailedLog => saveFailures < MaxSaveFailures
  /\ appointments' = r.appointments
  /\ localStorage' = r.localStorage
  /\ lastCall' = Call(op, id, Matches(appointments, id), r)
  /\ saveFailures' = IF r.logged = SaveFailedLog THEN saveFailures + 1 ELSE saveFailures
  /\ cancelledIds' = IF op = "cancelAppointment" /\ r.thrown = NoError
                     THEN cancelledIds \cup { id } ELSE cancelledIds

\* A call of a store action with outcome r, away from any grid.
Returns(op, id, r) ==
  /\ LedgerReturns(op, id, r)
  /\ UNCHANGED << fetchVars, gridVars, timeVars, tabVars, viewVars >>

Init ==
  /\ appointments = << >>
  /\ localStorage = NoItem
  /\ lastCall = NoCall
  /\ cancelledIds = {}
  /\ saveFailures = 0
  /\ NoFetch
  /\ NoGrid
  /\ NoOtherTab
  /\ NoViews
  /\ NoTimeCall

InitializeStore ==
  \E r \in { initializeStore(localStorage, t) : t \in GetItemThrows } :
    Returns("initializeStore", Undefined, r)

BookAppointment(appointment) ==
  \E r \in { bookAppointment(appointments, localStorage, appointment, t) :
               t \in SetItemThrows } :
    Returns("bookAppointment", appointment.id, r)

CancelAppointment(appointmentId) ==
  \E r \in { cancelAppointment(appointments, localStorage, appointmentId, t) :
               t \in SetItemThrows } :
    Returns("cancelAppointment", appointmentId, r)

Next ==
  \/ InitializeStore
  \/ \E appointment \in AppointmentInputs : BookAppointment(appointment)
  \/ \E appointmentId \in CancelIds : CancelAppointment(appointmentId)

Spec == Init /\ [][Next]_vars

\* ------------------------------------------------------------------------
\* A browser whose storage already holds something under the key when the
\* store is created: nothing, or text written by an earlier session or by
\* anything else (the texts of src/src/tests/utils/localStorage.test.ts).

mockAppointments ==
  << mockAppointment,
     [ mockAppointment EXCEPT !.id = "2", !.startTime = "10:00 AM",
                              !.endTime = "10:30 AM",
                              !.bookedAt = "2025-11-14T10:30:00.000Z" ] >>

\* { id: 'incomplete', doctorName: 'Dr. Test' }
incompleteAppointment ==
  [ EmptyObject EXCEPT !.id = "incomplete", !.doctorName = "Dr. Test" ]

EmptyText == << >>
InvalidText == << Bad("invalid"), Bad("json"), LBRACE, RBRACK >>
CutOffText == << LBRACK, LBRACE, Str("id"), COLON, Str("1") >>
NullText == << Lit("null") >>
ObjectText == << LBRACE, Str("not"), COLON, Str("an array"), RBRACE >>
StringText == << Str("string value") >>
NumberText == << Num("123") >>

\* Texts that are no JSON array: not JSON at all, or JSON of another type.
NotArrayTexts ==
  { EmptyText, InvalidText, CutOffText, NullText, ObjectText, StringText, NumberText }

StoredArrays ==
  { << >>, << mockAppointment >>, mockAppointments,
    << mockAppointment, incompleteAppointment >> }

StoredItems ==
  { NoItem } \cup { Item(text) : text \in NotArrayTexts }
             \cup { Item(JSONstringify(appts)) : appts \in StoredArrays }

InitLoad ==
  /\ appointments = << >>
  /\ localStorage \in StoredItems
  /\ lastCall = NoCall
  /\ cancelledIds = {}
  /\ saveFailures = 0
  /\ NoFetch
  /\ NoGrid
  /\ NoOtherTab
  /\ NoViews
  /\ NoTimeCall

SpecLoad == InitLoad /\ [][Next]_vars

\* ------------------------------------------------------------------------
\* Properties of the appointment ledger and of its snapshot

SameSlot(x, y) ==
  /\ x.doctorName = y.doctorName
  /\ x.date = y.date
  /\ x.startTime = y.startTime

HoldsSlot(appts, a) == \E k \in 1..Len(appts) : SameSlot(appts[k], a)

InLedger(appts, id) == \E k \in 1..Len(appts) : appts[k].id = id

\* The ledger without its first entry of the given id.
RECURSIVE RemoveFirst(_, _)
RemoveFirst(appts, id) ==
  IF appts = << >> THEN << >>
  ELSE IF Head(appts).id = id THEN Tail(appts)
  ELSE << Head(appts) >> \o RemoveFirst(Tail(appts), id)

Front(appts) == SubSeq(appts, 1, Len(appts) - 1)

StoreOps == { "bookAppointment", "cancelAppointment" }
Failed(call) == call.op \in StoreOps /\ call.thrown # NoError
Succeeded(call) == call.op \in StoreOps /\ call.thrown = NoError
SaveFailed(call) == call.logged = SaveFailedLog
SaveSucceeded(call) == Succeeded(call) /\ call.logged = NoLog

\* The text under the key is not the serialisation of the ledger.
Differ(appts, storage) == storage # Item(JSONstringify(appts))

\* C1: at every moment no two appointments of the ledger have the same
\* doctorName, date and startTime.
C1_Uniqueness ==
  \A j, k \in 1..Len(appointments) :
    j # k => ~SameSlot(appointments[j], appointments[k])

\* Two appointments are held and a third booking was refused for its slot.
C1_Witness ==
  /\ Len(appointments) >= 2
  /\ lastCall.op = "bookAppointment"
  /\ lastCall.thrown = SlotBookedMsg

\* C2: a call of bookAppointment or cancelAppointment that throws leaves
\* the ledger as it was, contents and order, and saves nothing: the item
\* in storage is unchanged and saveAppointments has not run.
C2_FailureChangesNothing ==
  [][ Failed(lastCall') =>
        /\ appointments' = appointments
        /\ localStorage' = localStorage
        /\ lastCall'.logged = NoLog ]_vars

\* A call failed while the ledger held entries the snapshot does not show.
C2_Witness ==
  /\ Failed(lastCall)
  /\ Len(appointments) >= 1
  /\ Differ(appointments, localStorage)

\* C3: bookAppointment(a) throws 'This time slot is already booked' exactly
\* when an entry of the ledger has a's doctorName, date and startTime, as
\* strings compared exactly; otherwise it returns and the ledger is the old
\* one with a appended.  The id, the end time and the rest play no part.
C3_BookOutcome ==
  \A a \in AppointmentInputs, t \in SetItemThrows :
    LET r == bookAppointment(appointments, localStorage, a, t)
    IN  IF HoldsSlot(appointments, a)
        THEN r.thrown = SlotBookedMsg
        ELSE r.thrown = NoError /\ r.appointments = appointments \o << a >>

\* A booking was accepted beside an entry of the same id.
C3_Witness ==
  /\ lastCall.op = "bookAppointment"
  /\ lastCall.thrown = NoError
  /\ lastCall.matches = 1
  /\ Len(appointments) = 2
  /\ ~SameSlot(appointments[1], appointments[2])

\* C4: after a call of bookAppointment or cancelAppointment that returned
\* and whose save went through, the item in storage is the serialisation of
\* the whole ledger, and initializeStore run on it gives that ledger back.
C4_SnapshotIsLedger ==
  SaveSucceeded(lastCall) =>
    /\ localStorage = Item(JSONstringify(appointments))
    /\ initializeStore(localStorage, FALSE).appointments = appointments
    /\ initializeStore(localStorage, FALSE).thrown = NoError

\* A cancellation was saved and left an appointment in the ledger.
C4_Witness ==
  /\ lastCall.op = "cancelAppointment"
  /\ SaveSucceeded(lastCall)
  /\ Len(appointments) >= 1

C6_InitializeStoreOutcome ==
  LET r == initializeStore(localStorage, FALSE)
      c == initializeStore(localStorage, TRUE)
  IN  /\ r.thrown = NoError
      /\ r.localStorage = localStorage
      /\ IF ~localStorage.has \/ localStorage.value \in NotArrayTexts
         THEN r.appointments = << >>
         ELSE JSONstringify(r.appointments) = localStorage.value
      /\ c.thrown = NoError
      /\ c.appointments = << >>
      /\ c.logged = LoadFailedLog

\* initializeStore met a text that is no JSON and left an empty ledger.
C6_Witness ==
  /\ lastCall.op = "initializeStore"
  /\ lastCall.thrown = NoError
  /\ lastCall.logged = LoadFailedLog
  /\ localStorage.has
  /\ appointments = << >>

\* C7: a call of cancelAppointment(id) that returns has removed the first
\* entry of that id and nothing else: the other entries are all there,
\* unchanged and in the same order, and the ledger is one entry shorter.
C7_CancelOutcome ==
  \A id \in CancelIds, t \in SetItemThrows :
    LET r == cancelAppointment(appointments, localStorage, id, t)
    IN  IF InLedger(appointments, id)
        THEN /\ r.thrown = NoError
             /\ r.appointments = RemoveFirst(appointments, id)
             /\ Len(r.appointments) = Len(appointments) - 1
        ELSE r.thrown = NotFoundMsg

\* Of two entries of one id the cancellation removed one and left the other.
C7_Witness ==
  /\ lastCall.op = "cancelAppointment"
  /\ lastCall.thrown = NoError
  /\ lastCall.matches = 2
  /\ Len(appointments) = 1
  /\ appointments[1].id = lastCall.id

\* A call of cancelAppointment that returned is followed at once by a call
\* of cancelAppointment with the same id.
CancelledTwice ==
  /\ lastCall.op = "cancelAppointment"
  /\ lastCall.thrown = NoError
  /\ lastCall'.op = "cancelAppointment"
  /\ lastCall'.id = lastCall.id

\* C8, as stated: the second of two calls of cancelAppointment(id) in a row,
\* the first of which returned, throws 'Appointment not found'.
C8_SecondCancelFails ==
  [][ CancelledTwice => lastCall'.thrown = NotFoundMsg ]_vars

\* C8, amended: the second call throws 'Appointment not found' when one
\* entry only had the id before the first call.
C8_SecondCancelFailsWhenIdUnique ==
  [][ (CancelledTwice /\ lastCall.matches = 1) =>
        /\ lastCall'.thrown = NotFoundMsg
        /\ appointments' = appointments ]_vars

\* cancelAppointment did not find an id that it had removed before.
C8_Witness ==
  /\ lastCall.op = "cancelAppointment"
  /\ lastCall.thrown = NotFoundMsg
  /\ lastCall.id \in cancelledIds
  /\ Len(appointments) >= 1

\* A call of bookAppointment(a) that returned is followed at once by a call
\* of cancelAppointment(a.id).
BookedThenCancelled ==
  /\ lastCall.op = "bookAppointment"
  /\ lastCall.thrown = NoError
  /\ lastCall'.op = "cancelAppointment"
  /\ lastCall'.id = lastCall.id

\* C9, as stated: booking a into the ledger L and cancelling a.id at once
\* gives L back, and the ledger is as long as before the booking.
C9_RoundTrip ==
  [][ BookedThenCancelled =>
        /\ lastCall'.thrown = NoError
        /\ appointments' = Front(appointments)
        /\ Len(appointments') = Len(appointments) - 1 ]_vars

\* C9, amended: the round trip gives L back when no entry of L has a's id.
C9_RoundTripWhenIdFresh ==
  [][ (BookedThenCancelled /\ lastCall.matches = 0) =>
        /\ lastCall'.thrown = NoError
        /\ appointments' = Front(appointments)
        /\ Len(appointments') = Len(appointments) - 1 ]_vars

\* The only entry of an id was cancelled and an older entry is still held.
C9_Witness ==
  /\ lastCall.op = "cancelAppointment"
  /\ lastCall.thrown = NoError
  /\ lastCall.matches = 1
  /\ Len(appointments) >= 1
  /\ lastCall.id \in cancelledIds

\* A step keeps the entries as they are: it appends one, removes one, or
\* changes nothing; initializeStore replaces the ledger by the snapshot.
EntriesKept ==
  \/ lastCall'.op = "initializeStore"
  \/ appointments' = appointments
  \/ /\ Len(appointments') = Len(appointments) + 1
     /\ Front(appointments') = appointments
  \/ \E k \in 1..Len(appointments) :
       appointments' = SubSeq(appointments, 1, k - 1)
                         \o SubSeq(appointments, k + 1, Len(appointments))

Window(availableAt, availableUntil) ==
  [ availableAt |-> availableAt, availableUntil |-> availableUntil ]

\* Windows of the tests and of the API, and some whose end is not a whole
\* number of half hours after their start.
Windows ==
  { Window("9:00 AM", "5:00 PM"), Window("9:00 AM", "11:00 AM"),
    Window("9:00 AM", "9:30 AM"), Window("11:30 AM", "12:30 PM"),
    Window("11:30 PM", "12:30 AM"), Window("12:00 AM", "2:00 AM"),
    Window("9:00 AM", "9:00 AM"), Window("10:00 PM", "2:00 AM"),
    Window(" 9:00 AM ", " 11:00 AM "), Window("9:00AM", "11:00AM"),
    Window("9:00 AM", "9:45 AM"), Window("9:00 AM", "9:10 AM"),
    Window("9:15 AM", "10:00 AM"), Window("11:00 PM", "11:59PM"),
    Window("11:59AM", "12:01PM"), Window("9:00am", "9:30PM"),
    Window("  9:00   AM  ", "9:00Am"), Window("12:30AM", "12:30PM"),
    Window("12:00 PM", "13:00PM"), Window("0:00AM", "1:00 am"),
    Window("9:00", "5:00 PM"), Window("9:00 AM", "900AM"),
    Window("9:0AM", "9:30 AM"), Window("", ""),
    Window("abc:def", "13:00"), Window("9:00 AM", "13:00") }

testSlots ==
  << TimeSlot("9:00 AM", "9:30 AM"), TimeSlot("9:30 AM", "10:00 AM"),
     TimeSlot("10:00 AM", "10:30 AM") >>

slotsWithDate ==
  << [ TimeSlot("9:00 AM", "9:30 AM") EXCEPT !.date = "2025-11-17" ],
     TimeSlot("9:00  AM", "9:30  AM") >>

TestSlotLists == { << >>, testSlots, slotsWithDate }

\* Ledgers the slots are marked against: none, the tests' two appointments,
\* and one appointment that starts with a slot and ends later.
SlotLedgers ==
  { << >>, mockAppointments,
    << [ mockAppointment EXCEPT !.endTime = "10:00 AM" ] >> }

MarkDates == { "2025-11-17", "2025-11-18" }
MarkDoctors == { "Dr. Smith", "dr. smith" }

TimeCall(op, id, thrown) ==
  [ op |-> op, id |-> id, matches |-> 0, thrown |-> thrown, logged |-> NoLog ]

InitSlots ==
  /\ appointments \in SlotLedgers
  /\ localStorage = NoItem
  /\ lastCall = NoCall
  /\ cancelledIds = {}
  /\ saveFailures = 0
  /\ NoFetch
  /\ NoGrid
  /\ NoOtherTab
  /\ NoViews
  /\ window \in Windows
  /\ parsed = NoParse
  /\ slots \in TestSlotLists
  /\ marked = NoMarked

ParseTime(timeString) ==
  /\ parsed' = [ timeString |-> timeString ] @@ parseTime(timeString)
  /\ lastCall' = TimeCall("parseTime", timeString, parseTime(timeString).thrown)
  /\ UNCHANGED << appointments, localStorage, cancelledIds, saveFailures, tabVars, viewVars >>
  /\ UNCHANGED << fetchVars, gridVars, window, slots, marked >>

\* const slots = generateTimeSlots(...): nothing is assigned when it throws.
GenerateTimeSlots ==
  LET r == generateTimeSlots(window.availableAt, window.availableUntil)
      start == parseTime(window.availableAt)
  IN  /\ slots' = IF r.thrown = NoError THEN r.slots ELSE slots
      /\ parsed' = IF start.thrown # NoError
                   THEN [ timeString |-> window.availableAt ] @@ start
                   ELSE [ timeString |-> window.availableUntil ]
                          @@ parseTime(window.availableUntil)
      /\ lastCall' = TimeCall("generateTimeSlots", Undefined, r.thrown)
      /\ UNCHANGED << appointments, localStorage, cancelledIds, saveFailures, tabVars, viewVars >>
      /\ UNCHANGED << fetchVars, gridVars, window, marked >>

\* slots.map(...) builds a new array of new objects.
MarkBookedSlots(date, doctorName) ==
  /\ marked' = [ date |-> date, doctorName |-> doctorName,
                 slots |-> markBookedSlots(slots, date, doctorName, appointments) ]
  /\ lastCall' = TimeCall("markBookedSlots", Undefined, NoError)
  /\ UNCHANGED << appointments, localStorage, cancelledIds, saveFailures, tabVars, viewVars >>
  /\ UNCHANGED << fetchVars, gridVars, window, parsed, slots >>

NextSlots ==
  \/ \E timeString \in { window.availableAt, window.availableUntil } :
       ParseTime(timeString)
  \/ GenerateTimeSlots
  \/ \E date \in MarkDates, doctorName \in MarkDoctors :
       MarkBookedSlots(date, doctorName)

SpecSlots == InitSlots /\ [][NextSlots]_vars

\* ------------------------------------------------------------------------
\* Properties of the time utilities

\* The characters of a text that are no white space, in order.
RECURSIVE WithoutWhiteSpace(_)
WithoutWhiteSpace(s) ==
  IF Len(s) = 0 THEN ""
  ELSE WithoutWhiteSpace(SubSeq(s, 1, Len(s) - 1))
         \o (IF CharAt(s, Len(s)) \in WhiteSpace THEN "" ELSE CharAt(s, Len(s)))

\* The decimal numerals of the numbers below 100.
TwoDigits(n) == DigitChars[(n \div 10) + 1] \o DigitChars[(n % 10) + 1]
Numerals(n) == IF n < 10 THEN { DigitChars[n + 1], TwoDigits(n) } ELSE { TwoDigits(n) }
Below100 == 0..99

PeriodsAM == { "AM", "Am", "aM", "am" }
PeriodsPM == { "PM", "Pm", "pM", "pm" }

\* The text is an hour of one or two digits, a colon, a minute of two
\* digits and a period.
HourPart(c) == SubSeq(c, 1, Len(c) - 5)
MinutePart(c) == SubSeq(c, Len(c) - 3, Len(c) - 2)
PeriodPart(c) == SubSeq(c, Len(c) - 1, Len(c))

IsTimeText(c) ==
  /\ Len(c) >= 6
  /\ \E h \in Below100 : HourPart(c) \in Numerals(h)
  /\ CharAt(c, Len(c) - 4) = ":"
  /\ \E m \in Below100 : MinutePart(c) = TwoDigits(m)
  /\ PeriodPart(c) \in PeriodsAM \cup PeriodsPM

HourOf(c) == CHOOSE h \in Below100 : HourPart(c) \in Numerals(h)
MinuteOf(c) == CHOOSE m \in Below100 : MinutePart(c) = TwoDigits(m)

TotalMinutes(t) == t.hours * 60 + t.minutes
Label(total) == formatTime(total \div 60, total % 60)

BothParse(w) ==
  /\ parseTime(w.availableAt).thrown = NoError
  /\ parseTime(w.availableUntil).thrown = NoError

StartOf(w) == TotalMinutes(parseTime(w.availableAt))
EndOf(w) == TotalMinutes(parseTime(w.availableUntil))

\* The k >= 0 with start + 30k < end.
SlotIndices(start, end) == { k \in 0..(end \div 30) : start + 30 * k < end }

C13_FloorCount ==
  (lastCall.op = "generateTimeSlots" /\ lastCall.thrown = NoError) =>
    Len(slots) = IF EndOf(window) > StartOf(window)
                 THEN (EndOf(window) - StartOf(window)) \div 30
                 ELSE 0

\* The appointments of the ledger that name the doctor, the date and both
\* times of a slot.
BookingsOf(slot, date, doctorName) ==
  { k \in DOMAIN appointments :
      << appointments[k].doctorName, appointments[k].date,
         appointments[k].startTime, appointments[k].endTime >>
        = << doctorName, date, slot.startTime, slot.endTime >> }

\* C15: markBookedSlots returns a list of the same length and order as its
\* input, where each slot is booked exactly when some appointment has the
\* doctor, the date, the start time and the end time of the slot, is
\* available exactly when it is not booked, and keeps its other fields; the
\* input list and the ledger are as before, and the same call made again
\* gives the same list.
C15_MarkBookedSlots ==
  [][ lastCall'.op = "markBookedSlots" =>
        /\ slots' = slots
        /\ appointments' = appointments
        /\ Len(marked'.slots) = Len(slots)
        /\ \A k \in 1..Len(slots) :
             LET booked == BookingsOf(slots[k], marked'.date, marked'.doctorName) # {}
             IN  marked'.slots[k] =
                   [ startTime |-> slots[k].startTime,
                     endTime |-> slots[k].endTime,
                     date |-> slots[k].date,
                     isBooked |-> booked,
                     isAvailable |-> ~booked ]
        /\ markBookedSlots(slots', marked'.date, marked'.doctorName, appointments')
             = marked'.slots
    ]_vars

\* The tests' three slots marked against the tests' ledger for Dr. Smith on
\* 2025-11-17: the first is booked, the second is not.
C15_Witness ==
  /\ lastCall.op = "markBookedSlots"
  /\ slots = testSlots
  /\ appointments = mockAppointments
  /\ marked.date = "2025-11-17"
  /\ marked.doctorName = "Dr. Smith"
  /\ marked.slots[1].isBooked
  /\ ~marked.slots[1].isAvailable
  /\ ~marked.slots[2].isBooked
  /\ marked.slots[2].isAvailable
  /\ slots[1].isAvailable

\* ------------------------------------------------------------------------
\* SpecWeek: a doctor's page with its weekly grid and booking dialog

Schedule(dayOfWeek, availableAt, availableUntil) ==
  [ dayOfWeek |-> dayOfWeek, availableAt |-> availableAt,
    availableUntil |-> availableUntil ]

Doctor(name, timezone, schedules) ==
  [ name |-> name, timezone |-> timezone, schedules |-> schedules ]

\* The doctors shown: one with two windows on Monday and a window that is
\* not a multiple of 30 minutes long, one whose window runs past midnight
\* (13:00PM is hour 25), one whose only window of a day does not parse, and
\* one with no window. The first has a second window on Wednesday too,
\* whose text does not parse.
GridDoctors ==
  { Doctor("Dr. Smith", "America/New_York",
           << Schedule("Wednesday", "9:00AM", "9:45AM"),
              Schedule("Monday", "9:00 AM", "10:30 AM"),
              Schedule("Monday", "2:00 PM", "3:00 PM"),
              Schedule("Wednesday", "noon", "5:00 PM") >>),
    Doctor("Dr. Jones", "Europe/London",
           << Schedule("Tuesday", "12:00 PM", "13:00PM") >>),
    Doctor("Dr. Brown", "Asia/Tokyo",
           << Schedule("Friday", "9:00", "5:00 PM") >>),
    Doctor("Dr. White", "Asia/Tokyo", << >>) }

\* new Date() when the grid is set up: the Friday before the tests'
\* appointments, a week that runs into the next year, and a week with
\* 29 February in it.
Todays == { Date(2025, 10, 14), Date(2025, 11, 29), Date(2024, 1, 26) }

\* The slots of a day the user clicks.
ClickedSlots == { 1, 2, 3, 25 }

\* Date.now() and new Date().toISOString() at a confirmation.
Clocks == { [ now |-> "1763114400000", iso |-> "2025-11-14T10:00:00.000Z" ] }

GridCall(op, thrown) ==
  [ op |-> op, id |-> Undefined, matches |-> 0, thrown |-> thrown, logged |-> NoLog ]

InitWeek ==
  /\ appointments \in SlotLedgers
  /\ localStorage = NoItem
  /\ lastCall = NoCall
  /\ cancelledIds = {}
  /\ saveFailures = 0
  /\ NoFetch
  /\ NoGrid
  /\ NoOtherTab
  /\ NoViews
  /\ NoTimeCall

\* The page of a doctor is opened: weekDates and slotsPerDay are computed.
\* When a window does not parse the computed throws and shows nothing.
MountGrid(doc, today) ==
  LET dates == getNextWeekDates(today)
      r == slotsPerDayOf(doc, appointments, dates)
  IN  /\ doctor = NoDoctor
      /\ doctor' = doc
      /\ weekDates' = dates
      /\ slotsPerDay' = r.result
      /\ lastCall' = GridCall("slotsPerDay", r.thrown)
      /\ UNCHANGED << selectedSlot, bookingSuccess, bookingError >>
      /\ UNCHANGED << appointments, localStorage, cancelledIds, saveFailures, tabVars, viewVars >>
      /\ UNCHANGED << fetchVars, timeVars >>

\* handleSlotClick emits the slot with its date and day name, and
\* handleSlotSelection opens the dialog on it.
HandleSlotClick(i, j) ==
  /\ i \in 1..Len(slotsPerDay)
  /\ j \in 1..Len(slotsPerDay[i].slots)
  /\ LET dayInfo == slotsPerDay[i]
         slot == dayInfo.slots[j]
     IN  /\ ~(~slot.isAvailable \/ slot.isBooked)
         /\ selectedSlot' = [ startTime |-> slot.startTime, endTime |-> slot.endTime,
                              isAvailable |-> slot.isAvailable,
                              isBooked |-> slot.isBooked,
                              date |-> dayInfo.dateString,
                              dayOfWeek |-> dayInfo.dayName ]
  /\ bookingError' = Null
  /\ bookingSuccess' = FALSE
  /\ lastCall' = GridCall("handleSlotClick", NoError)
  /\ UNCHANGED << doctor, weekDates, slotsPerDay >>
  /\ UNCHANGED << appointments, localStorage, cancelledIds, saveFailures, tabVars, viewVars >>
  /\ UNCHANGED << fetchVars, timeVars >>

\* The appointment confirmBooking builds.
NewAppointment(doc, slot, clock) ==
  [ id |-> doc.name \o "-" \o slot.date \o "-" \o slot.startTime \o "-" \o clock.now,
    doctorName |-> doc.name,
    doctorTimezone |-> doc.timezone,
    date |-> slot.date,
    dayOfWeek |-> slot.dayOfWeek,
    startTime |-> slot.startTime,
    endTime |-> slot.endTime,
    bookedAt |-> clock.iso ]

\* The confirm button of the dialog, shown until a booking succeeds; the
\* grid is projected again from the new ledger.
ConfirmBooking(clock) ==
  /\ selectedSlot # NoSlot
  /\ doctor # NoDoctor
  /\ ~bookingSuccess
  /\ \E r \in { bookAppointment(appointments, localStorage,
                                NewAppointment(doctor, selectedSlot, clock), t) :
                  t \in SetItemThrows } :
       /\ LedgerReturns("bookAppointment",
                        NewAppointment(doctor, selectedSlot, clock).id, r)
       /\ bookingSuccess' = (r.thrown = NoError)
       /\ bookingError' = IF r.thrown = NoError THEN Null ELSE r.thrown
       /\ slotsPerDay' = slotsPerDayOf(doctor, r.appointments, weekDates).result
  /\ UNCHANGED << doctor, weekDates, selectedSlot >>
  /\ UNCHANGED << fetchVars, timeVars, tabVars, viewVars >>

NextWeek ==
  \/ \E doc \in GridDoctors, today \in Todays : MountGrid(doc, today)
  \/ \E i \in 1..7, j \in ClickedSlots : HandleSlotClick(i, j)
  \/ \E clock \in Clocks : ConfirmBooking(clock)

SpecWeek == InitWeek /\ [][NextWeek]_vars

\* ------------------------------------------------------------------------
\* Properties of the weekly grid

\* A grid is on screen.
Mounted == doctor # NoDoctor

\* Days since Monday 2024-01-01, and the name of the day that many days later.
DayNumber(d) == DaysBeforeYear(d.year) + DaysBeforeMonth(d.year, d.month) + (d.date - 1)

FromMonday ==
  << "Monday", "Tuesday", "Wednesday", "Thursday", "Friday", "Saturday", "Sunday" >>

IsCalendarDate(d) ==
  /\ d.month \in 0..11
  /\ d.date \in 1..DaysInMonth(d.year, d.month)

\* The windows of the doctor on screen that name a day.
WindowsOf(dayName) ==
  { k \in DOMAIN doctor.schedules : doctor.schedules[k].dayOfWeek = dayName }

FirstWindowOf(dayName) ==
  doctor.schedules[CHOOSE k \in WindowsOf(dayName) : \A l \in WindowsOf(dayName) : k <= l]

\* Some date of the week falls on a day whose first window does not parse.
WeekThrows ==
  \E i \in 1..Len(weekDates) :
    /\ WindowsOf(getDayOfWeek(weekDates[i])) # {}
    /\ ~BothParse([ availableAt |-> FirstWindowOf(getDayOfWeek(weekDates[i])).availableAt,
                    availableUntil |-> FirstWindowOf(getDayOfWeek(weekDates[i])).availableUntil ])

\* The start and end texts of a list of slots.
Texts(list) == [ k \in DOMAIN list |-> << list[k].startTime, list[k].endTime >> ]

Places(grid) == { << i, j >> \in (1..7) \X (1..30) : i <= Len(grid) /\ j <= Len(grid[i].slots) }

Flags(grid, p) == << grid[p[1]].slots[p[2]].isAvailable, grid[p[1]].slots[p[2]].isBooked >>

\* The places that show the selected slot: its date and both its times.
ShowsSelected(grid, p) ==
  /\ grid[p[1]].dateString = selectedSlot.date
  /\ grid[p[1]].slots[p[2]].startTime = selectedSlot.startTime
  /\ grid[p[1]].slots[p[2]].endTime = selectedSlot.endTime

\* A step in which the booking of the selected slot succeeds.
Booked == lastCall'.op = "bookAppointment" /\ lastCall'.thrown = NoError

mockDoctorScheduleRaw ==
  << Raw("Dr. Smith", "America/New_York", "Monday", "9:00 AM", "5:00 PM"),
     Raw("Dr. Smith", "America/New_York", "Tuesday", "9:00 AM", "5:00 PM"),
     Raw("Dr. Johnson", "America/Los_Angeles", "Monday", "10:00 AM", "6:00 PM") >>

mixedRaw ==
  << Raw("Dr. Test", "UTC", "Friday", "  9:00 AM  ", "  5:00 PM  "),
     Raw("dr. test", "UTC", "Monday", "10:00 AM", "6:00 PM"),
     Raw("Dr. Test", "Asia/Tokyo", "Monday", "10:00 AM", "\t6:00 PM\n"),
     Raw("Dr. Smith", "America/New_York", "Monday", "9:00 AM", "5:00 PM"),
     Raw("Dr. Test", "UTC", "Monday", "1:00 PM", "2:00 PM") >>

RawBodies ==
  { << >>, mockDoctorScheduleRaw, mixedRaw, << mixedRaw[1] >>,
    << mockDoctorScheduleRaw[3], mockDoctorScheduleRaw[1] >> }

\* What the network answers.
Responses ==
  { Response("ok", NotThrown, TRUE, 200, "OK", NotThrown, Body(TRUE, raw)) :
      raw \in RawBodies }
  \cup
  { Response("transport", Thrown(TRUE, "Network error"), FALSE, 0, "", NotThrown,
             Body(FALSE, << >>)),
    Response("transport", Thrown(TRUE, "Failed to fetch"), FALSE, 0, "", NotThrown,
             Body(FALSE, << >>)),
    Response("not an Error", Thrown(FALSE, "Unknown error"), FALSE, 0, "", NotThrown,
             Body(FALSE, << >>)),
    Response("status", NotThrown, FALSE, 404, "Not Found", NotThrown,
             Body(FALSE, << >>)),
    Response("status", NotThrown, FALSE, 500, "Internal Server Error", NotThrown,
             Body(FALSE, << >>)),
    Response("status", NotThrown, FALSE, 403, "Forbidden", NotThrown,
             Body(FALSE, << >>)),
    Response("body parse", NotThrown, TRUE, 200, "OK",
             Thrown(TRUE, "Unexpected token"), Body(FALSE, << >>)),
    Response("body shape", NotThrown, TRUE, 200, "OK", NotThrown,
             Body(FALSE, << >>)) }

FetchCall(op, response, thrown, overtaken) ==
  [ op |-> op, id |-> response, matches |-> 0, thrown |-> thrown, logged |-> NoLog,
    overtaken |-> overtaken ]

\* fetchDoctors up to its await. Nothing keeps a call from starting while
\* another waits.
FetchDoctors ==
  /\ Len(inFlight) < MaxInFlight
  /\ loading' = TRUE
  /\ error' = Null
  /\ inFlight' = Append(inFlight, FALSE)
  /\ lastCall' = FetchCall("fetchDoctors", Undefined, NoError, FALSE)
  /\ UNCHANGED doctors
  /\ UNCHANGED << appointments, localStorage, cancelledIds, saveFailures, tabVars, viewVars >>
  /\ UNCHANGED << gridVars, timeVars >>

\* The calls that still wait once the k-th has ended: the older ones have
\* been overtaken.
Remaining(calls, k) ==
  [ i \in 1..(Len(calls) - 1) |-> IF i < k THEN TRUE ELSE calls[i + 1] ]

\* The response of the k-th of the calls that wait arrives, and the call
\* ends.
SettleFetchDoctors(k, response) ==
  LET r == settleFetchDoctors(doctors, error, response)
  IN  /\ k \in 1..Len(inFlight)
      /\ doctors' = r.doctors
      /\ error' = r.error
      /\ loading' = r.loading
      /\ inFlight' = Remaining(inFlight, k)
      /\ lastCall' = FetchCall("fetchDoctors settled", response, r.thrown, inFlight[k])
      /\ UNCHANGED << appointments, localStorage, cancelledIds, saveFailures, tabVars, viewVars >>
      /\ UNCHANGED << gridVars, timeVars >>

NextFetch ==
  \/ FetchDoctors
  \/ \E k \in 1..MaxInFlight, response \in Responses : SettleFetchDoctors(k, response)

SpecFetch == Init /\ [][NextFetch]_vars

\* ------------------------------------------------------------------------
\* Properties of the catalog

\* A call of fetchDoctors has just ended, well or with a failure.
Settled == lastCall.op = "fetchDoctors settled"
FetchSucceeded == Settled /\ lastCall.thrown = NoError
FetchFailed == Settled /\ lastCall.thrown # NoError

\* The records of the body that call received.
Received == lastCall.id.data.records

\* The places of the records with a name, and the m-th of them.
PlacesOf(raw, name) == { k \in 1..Len(raw) : raw[k].name = name }

FirstPlaceOf(raw, name) ==
  CHOOSE k \in PlacesOf(raw, name) : \A l \in PlacesOf(raw, name) : k <= l

NthPlaceOf(raw, name, m) ==
  CHOOSE k \in PlacesOf(raw, name) :
    Cardinality({ l \in PlacesOf(raw, name) : l < k }) = m - 1

RECURSIVE TotalWindows(_)
TotalWindows(catalog) ==
  IF catalog = << >> THEN 0
  ELSE Len(Head(catalog).schedules) + TotalWindows(Tail(catalog))

\* C18: groupSchedulesByDoctor gives one doctor for each distinct name of
\* the records (names that differ by case are distinct), in the order in
\* which the names first appear; the schedules of a doctor are the records
\* of that name in the order of the input, so the windows of all doctors
\* are as many as the records.
C18_GroupedByName ==
  FetchSucceeded =>
    /\ { doctors[i].name : i \in 1..Len(doctors) }
         = { Received[k].name : k \in 1..Len(Received) }
    /\ \A i, j \in 1..Len(doctors) :
         i < j => FirstPlaceOf(Received, doctors[i].name)
                    < FirstPlaceOf(Received, doctors[j].name)
    /\ \A i \in 1..Len(doctors) :
         /\ Len(doctors[i].schedules) = Cardinality(PlacesOf(Received, doctors[i].name))
         /\ \A m \in 1..Len(doctors[i].schedules) :
              LET record == Received[NthPlaceOf(Received, doctors[i].name, m)]
              IN  doctors[i].schedules[m] =
                    [ dayOfWeek |-> record.day_of_week,
                      availableAt |-> trim(record.available_at),
                      availableUntil |-> trim(record.available_until) ]
    /\ TotalWindows(doctors) = Len(Received)

\* The five records of three names, two of which differ by case, grouped:
\* Dr. Test with its three windows, then dr. test, then Dr. Smith.
C18_Witness ==
  /\ FetchSucceeded
  /\ Received = mixedRaw
  /\ Len(doctors) = 3
  /\ doctors[1].name = "Dr. Test"
  /\ Len(doctors[1].schedules) = 3
  /\ doctors[1].schedules[1].dayOfWeek = "Friday"
  /\ doctors[1].schedules[3].availableAt = "1:00 PM"
  /\ doctors[2].name = "dr. test"
  /\ doctors[3].name = "Dr. Smith"

\* C19: whenever a call of fetchDoctors fails, whatever the catalog held
\* before, the store ends with the message of the failure in error and with
\* an empty catalog.
C19_FailureEmptiesCatalog ==
  FetchFailed => (error = lastCall.thrown /\ doctors = << >>)

StartsWith(s, prefix) == Len(s) >= Len(prefix) /\ SubSeq(s, 1, Len(prefix)) = prefix

\* C20: the message of a failed fetch depends on the kind of the failure
\* only: it begins with "Error fetching doctors: " when the transport or
\* the parsing of the body fails, it is "Failed to fetch doctors: ", the
\* status, a space and the status text when the response is not 2xx, and it
\* is "Unknown error occurred while fetching doctors" when what was thrown
\* is not an Error.
C20_MessageByKind ==
  FetchFailed =>
    /\ lastCall.id.kind \in { "transport", "body parse" } =>
         StartsWith(lastCall.thrown, "Error fetching doctors: ")
    /\ lastCall.id.kind = "status" =>
         lastCall.thrown = "Failed to fetch doctors: " \o toString(lastCall.id.status)
                             \o " " \o lastCall.id.statusText
    /\ lastCall.id.kind = "not an Error" =>
         lastCall.thrown = "Unknown error occurred while fetching doctors"

\* ------------------------------------------------------------------------
\* More properties of the time utilities

\* C29: every slot generateTimeSlots emits lies inside the window: for valid
\* bounds with end > start, the k-th slot, which runs from start + 30(k-1)
\* to start + 30k minutes since midnight, begins at or after start and ends
\* at or before end, also when end - start is not a multiple of 30.
C29_SlotsInsideWindow ==
  (/\ lastCall.op = "generateTimeSlots"
   /\ lastCall.thrown = NoError
   /\ EndOf(window) > StartOf(window)) =>
    \A k \in 1..Len(slots) :
      /\ StartOf(window) + 30 * (k - 1) >= StartOf(window)
      /\ StartOf(window) + 30 * k <= EndOf(window)
      /\ slots[k].startTime = Label(StartOf(window) + 30 * (k - 1))
      /\ slots[k].endTime = Label(StartOf(window) + 30 * k)

\* ------------------------------------------------------------------------
\* Properties of overlapping calls of fetchDoctors

\* C21: a call of fetchDoctors may start while another waits, and every
\* call that waits ends on its own; a call that ends well leaves its own
\* result as the catalog, whether a call started after it has ended before
\* it or not, so of two overlapping calls the one that resolves last
\* decides the catalog. (A call that fails leaves the catalog as it was.)
C21_LastResolvedWins ==
  [][ /\ lastCall'.op = "fetchDoctors" =>
           /\ Len(inFlight') = Len(inFlight) + 1
           /\ doctors' = doctors
      /\ lastCall'.op = "fetchDoctors settled" =>
           /\ Len(inFlight') = Len(inFlight) - 1
           /\ lastCall'.thrown = NoError =>
                doctors' = groupSchedulesByDoctor(lastCall'.id.data.records)
           /\ lastCall'.thrown # NoError => doctors' = doctors
    ]_vars

\* Two calls overlapped, the one started first has ended last, after the
\* other, and the catalog is what it received: the tests' two doctors.
C21_Witness ==
  /\ Settled
  /\ lastCall.thrown = NoError
  /\ lastCall.overtaken
  /\ inFlight = << >>
  /\ Received = mockDoctorScheduleRaw
  /\ Len(doctors) = 2
  /\ doctors[2].name = "Dr. Johnson"

\* C24: loading is true whenever at least one call of fetchDoctors waits
\* for its response and false whenever none does, also when two calls
\* overlap.
C24_LoadingWhileInFlight == loading = (inFlight # << >>)

\* C25: once every call of fetchDoctors that was started has ended, error
\* holds a message exactly if the call that ended last failed; when it
\* ended well, error is null and the catalog is its result.
C25_ErrorOfLastSettled ==
  (Settled /\ inFlight = << >>) =>
    /\ (error # Null) = (lastCall.thrown # NoError)
    /\ lastCall.thrown = NoError =>
         doctors = groupSchedulesByDoctor(Received)

\* ------------------------------------------------------------------------
\* Properties of one session's ledger over time

\* C26: within one session an appointment the ledger holds stays in it
\* until cancelAppointment is called with its id: no step other than a
\* cancelAppointment of that id that returns removes it, neither a save
\* that fails nor the initializeStore that runs when the doctor list is
\* shown again.
C26_StaysUntilCancelled ==
  [][ \A k \in 1..Len(appointments) :
        \/ \E j \in 1..Len(appointments') : appointments'[j] = appointments[k]
        \/ /\ lastCall'.op = "cancelAppointment"
           /\ lastCall'.thrown = NoError
           /\ lastCall'.id = appointments[k].id
    ]_vars

\* ------------------------------------------------------------------------
\* The weekly grid against the ledger

\* The slot at place p of the grid as handleSlotClick emits it.
EmittedSlot(grid, p) ==
  [ startTime |-> grid[p[1]].slots[p[2]].startTime,
    endTime |-> grid[p[1]].slots[p[2]].endTime,
    isAvailable |-> grid[p[1]].slots[p[2]].isAvailable,
    isBooked |-> grid[p[1]].slots[p[2]].isBooked,
    date |-> grid[p[1]].dateString,
    dayOfWeek |-> grid[p[1]].dayName ]

\* The ledger rejects the booking of the slot at place p for the doctor of
\* the grid.
LedgerRejects(grid, p) ==
  \A clock \in Clocks :
    bookAppointment(appointments, localStorage,
                    NewAppointment(doctor, EmittedSlot(grid, p), clock),
                    FALSE).thrown = SlotBookedMsg

\* C28: the grid and the ledger agree, whatever the ledger holds: the
\* booking of every slot the weekly projection shows available (same
\* doctorName, date, startTime, endTime) succeeds, and every slot whose
\* booking the ledger would reject is shown booked, so that handleSlotClick
\* does not emit it.
C28_AvailableSlotBooks ==
  Mounted =>
    \A p \in Places(slotsPerDay) :
      /\ Flags(slotsPerDay, p)[1] => ~LedgerRejects(slotsPerDay, p)
      /\ LedgerRejects(slotsPerDay, p) =>
           /\ Flags(slotsPerDay, p)[2]
           /\ ~Flags(slotsPerDay, p)[1]

\* ------------------------------------------------------------------------
\* Two tabs of one browser: each has its own store, created empty and
\* filled by its own initializeStore, and both read and write the one item
\* of the localStorage they share. A tab runs one action at a time, to its
\* end; the actions of the two tabs interleave.

TabInputs ==
  { mockAppointment,
    [ mockAppointment EXCEPT !.id = "2" ],
    [ mockAppointment EXCEPT !.id = "3", !.date = "2025-11-18" ] }

TabCancelIds == { "1", "2" }

\* A call made in the second tab.
OtherCall(op, id, matches, r) ==
  [ op |-> op, id |-> id, matches |-> matches,
    thrown |-> r.thrown, logged |-> r.logged, tab |-> "other" ]

\* The effect of a store action of the second tab with outcome r.
OtherReturns(op, id, r) ==
  /\ Len(r.appointments) <= Len(otherAppointments) \/ Len(r.appointments) <= MaxAppointments
  /\ r.logged = SaveFailedLog => saveFailures < MaxSaveFailures
  /\ otherAppointments' = r.appointments
  /\ localStorage' = r.localStorage
  /\ lastCall' = OtherCall(op, id, Matches(otherAppointments, id), r)
  /\ saveFailures' = IF r.logged = SaveFailedLog THEN saveFailures + 1 ELSE saveFailures
  /\ UNCHANGED << appointments, cancelledIds >>
  /\ UNCHANGED << fetchVars, gridVars, timeVars, viewVars >>

OtherInitializeStore ==
  \E r \in { initializeStore(localStorage, t) : t \in GetItemThrows } :
    OtherReturns("initializeStore", Undefined, r)

OtherBookAppointment(appointment) ==
  \E r \in { bookAppointment(otherAppointments, localStorage, appointment, t) :
               t \in SetItemThrows } :
    OtherReturns("bookAppointment", appointment.id, r)

OtherCancelAppointment(appointmentId) ==
  \E r \in { cancelAppointment(otherAppointments, localStorage, appointmentId, t) :
               t \in SetItemThrows } :
    OtherReturns("cancelAppointment", appointmentId, r)

NextTabs ==
  \/ InitializeStore
  \/ \E appointment \in TabInputs : BookAppointment(appointment)
  \/ \E appointmentId \in TabCancelIds : CancelAppointment(appointmentId)
  \/ OtherInitializeStore
  \/ \E appointment \in TabInputs : OtherBookAppointment(appointment)
  \/ \E appointmentId \in TabCancelIds : OtherCancelAppointment(appointmentId)

SpecTabs == Init /\ [][NextTabs]_vars

\* The call was made in the second tab.
InOtherTab(call) == "tab" \in DOMAIN call

\* The ledger of the tab a call was made in.
LedgerOf(call, own, other) == IF InOtherTab(call) THEN other ELSE own

\* The appointment with the given id among those the tabs book.
TabInput(id) == CHOOSE a \in TabInputs : a.id = id

\* C23: nothing prevents a double booking across sessions. Of two tabs
\* that share the durable store, each with its own ledger initialised from
\* it, each can book the same (doctorName, date, startTime) and neither
\* call fails: a call of bookAppointment is refused exactly if the ledger
\* of its own tab holds the slot, whatever the snapshot and the ledger of
\* the other tab hold.
C23_OwnLedgerDecides ==
  [][ lastCall'.op = "bookAppointment" =>
        ( lastCall'.thrown = SlotBookedMsg
            <=> HoldsSlot(LedgerOf(lastCall', appointments, otherAppointments),
                          TabInput(lastCall'.id)) )
        /\ lastCall'.thrown \in { NoError, SlotBookedMsg }
    ]_vars

\* The first tab holds the appointment it booked and saved, and the second
\* tab, which never loaded it, has just booked the same slot under another
\* id: both ledgers hold the slot and the snapshot is now the second one.
C23_Witness ==
  /\ lastCall.op = "bookAppointment"
  /\ InOtherTab(lastCall)
  /\ lastCall.thrown = NoError
  /\ lastCall.id = "2"
  /\ appointments = << mockAppointment >>
  /\ otherAppointments = << [ mockAppointment EXCEPT !.id = "2" ] >>
  /\ SameSlot(appointments[1], otherAppointments[1])
  /\ localStorage = Item(JSONstringify(otherAppointments))

\* No two entries of the list share doctorName, date and startTime.
NoSharedSlot(appts) ==
  \A j, k \in 1..Len(appts) : j # k => ~SameSlot(appts[j], appts[k])

\* What a tab would load from the item under the key now.
Snapshot == loadAppointments(localStorage, FALSE)

\* C27: when the durable store is only ever written by the saves of this
\* application, in this tab or in another tab that shares the store, no
\* snapshot ever persisted holds two appointments of one (doctorName,
\* date, startTime), and no ledger ever does, also right after
\* initializeStore has replaced it by the snapshot.
C27_NoSharedSlotAnywhere ==
  /\ NoSharedSlot(Snapshot)
  /\ NoSharedSlot(appointments)
  /\ NoSharedSlot(otherAppointments)
  /\ lastCall.op = "initializeStore" =>
       LedgerOf(lastCall, appointments, otherAppointments) = Snapshot

\* The first tab, which has held the appointment of id 1 and cancelled it,
\* has just loaded a snapshot of two appointments that the second tab
\* wrote, the first of them in the slot of the cancelled one.
C27_Witness ==
  /\ lastCall.op = "initializeStore"
  /\ ~InOtherTab(lastCall)
  /\ Len(appointments) = 2
  /\ appointments = otherAppointments
  /\ appointments[1].id = "2"
  /\ "1" \in cancelledIds

\* ------------------------------------------------------------------------
\* The page of the booked appointments (views/MyAppointments.vue): the two
\* computed lists of a ledger as it was loaded or booked, read while the
\* clock runs. A computed runs its getter when it is read for the first
\* time and keeps the result while the ledger stays as it is.

futureAppointments ==
  << [ mockAppointment EXCEPT !.date = "2026-01-15" ],
     [ mockAppointment EXCEPT !.id = "2", !.date = "2026-01-10" ] >>

longPastAppointments ==
  << [ mockAppointment EXCEPT !.date = "2020-01-10" ],
     [ mockAppointment EXCEPT !.id = "2", !.date = "2020-01-15" ] >>

ViewLedgers ==
  { << >>, mockAppointments, futureAppointments, longPastAppointments,
    << mockAppointment, [ mockAppointment EXCEPT !.id = "2", !.date = "2025-11-18" ] >>,
    << [ mockAppointment EXCEPT !.id = "2", !.date = "2025-11-16" ], mockAppointment >>,
    << mockAppointment, incompleteAppointment >>,
    << [ mockAppointment EXCEPT !.date = "tomorrow" ] >> }

\* The instants the clock shows: from ten hours before to ten hours after
\* 2025-11-17T00:00Z, that instant itself and the minute after it.
Instants ==
  { newDate(mockAppointment.date).time + d : d \in { -600, -60, 0, 1, 600 } }

\* getTimezoneOffset() in New York (winter), in UTC and in Tokyo.
TimezoneOffsets == { 300, 0, -540 }

ViewCall(op) ==
  [ op |-> op, id |-> Undefined, matches |-> 0, thrown |-> NoError, logged |-> NoLog ]

InitViews ==
  /\ appointments \in ViewLedgers
  /\ localStorage = NoItem
  /\ lastCall = NoCall
  /\ cancelledIds = {}
  /\ saveFailures = 0
  /\ NoFetch
  /\ NoGrid
  /\ NoTimeCall
  /\ NoOtherTab
  /\ now \in Instants
  /\ timezoneOffset \in TimezoneOffsets
  /\ upcomingAppointments = NotComputed
  /\ pastAppointments = NotComputed

\* Time passes.
Tick(instant) ==
  /\ instant > now
  /\ now' = instant
  /\ UNCHANGED << timezoneOffset, upcomingAppointments, pastAppointments >>
  /\ UNCHANGED << storeVars, fetchVars, gridVars, timeVars, tabVars >>

\* store.upcomingAppointments is read for the first time.
ReadUpcomingAppointments ==
  /\ upcomingAppointments = NotComputed
  /\ upcomingAppointments' = [ at |-> now, value |-> upcomingGetter(appointments, now) ]
  /\ lastCall' = ViewCall("upcomingAppointments")
  /\ UNCHANGED << now, timezoneOffset, pastAppointments >>
  /\ UNCHANGED << appointments, localStorage, cancelledIds, saveFailures >>
  /\ UNCHANGED << fetchVars, gridVars, timeVars, tabVars >>

\* store.pastAppointments is read for the first time.
ReadPastAppointments ==
  /\ pastAppointments = NotComputed
  /\ pastAppointments' = [ at |-> now, value |-> pastGetter(appointments, now) ]
  /\ lastCall' = ViewCall("pastAppointments")
  /\ UNCHANGED << now, timezoneOffset, upcomingAppointments >>
  /\ UNCHANGED << appointments, localStorage, cancelledIds, saveFailures >>
  /\ UNCHANGED << fetchVars, gridVars, timeVars, tabVars >>

NextViews ==
  \/ \E instant \in Instants : Tick(instant)
  \/ ReadUpcomingAppointments
  \/ ReadPastAppointments

SpecViews == InitViews /\ [][NextViews]_vars

\* ------------------------------------------------------------------------
\* Properties of the derived views

Computed(view) == view # NotComputed

InView(view, appt) == \E j \in 1..Len(view.value) : view.value[j] = appt

\* The entries of the ledger whose date is a date.
Dated == { k \in 1..Len(appointments) : newDate(appointments[k].date).valid }

\* The instant of midnight of the day in UTC, and of midnight of the day on
\* the clock of the browser.
MidnightUTC(appt) == newDate(appt.date).time
MidnightLocal(appt) == newDate(appt.date).time + timezoneOffset

\* C22 as stated, midnight being the midnight of the user's day (the local
\* midnight of the spec): an appointment is in upcomingAppointments exactly
\* when the midnight its day begins with is at or after the instant of the
\* computation, and in pastAppointments exactly when it is before it.
C22_LocalMidnightDecides ==
  \A k \in Dated :
    /\ Computed(upcomingAppointments) =>
         ( InView(upcomingAppointments, appointments[k])
             <=> MidnightLocal(appointments[k]) >= upcomingAppointments.at )
    /\ Computed(pastAppointments) =>
         ( InView(pastAppointments, appointments[k])
             <=> MidnightLocal(appointments[k]) < pastAppointments.at )

\* C22, amended: midnight is midnight UTC of the date, whatever the time
\* zone of the browser. An appointment is in upcomingAppointments exactly
\* when its date is a date and 00:00 UTC of it is at or after the instant
\* of the computation, and in pastAppointments exactly when it is before
\* it; so an appointment of the day that instant falls on in UTC is
\* upcoming only at 00:00 UTC itself and past at every later instant.
C22_UtcMidnightDecides ==
  \A k \in 1..Len(appointments) :
    LET appt == appointments[k]
        OfTheDay(at) == k \in Dated /\ at - MidnightUTC(appt) \in 0..(24 * 60 - 1)
    IN  /\ Computed(upcomingAppointments) =>
             /\ InView(upcomingAppointments, appt)
                  <=> (k \in Dated /\ MidnightUTC(appt) >= upcomingAppointments.at)
             /\ OfTheDay(upcomingAppointments.at) =>
                  ( InView(upcomingAppointments, appt)
                      <=> upcomingAppointments.at = MidnightUTC(appt) )
        /\ Computed(pastAppointments) =>
             /\ InView(pastAppointments, appt)
                  <=> (k \in Dated /\ MidnightUTC(appt) < pastAppointments.at)
             /\ OfTheDay(pastAppointments.at) =>
                  ( InView(pastAppointments, appt)
                      <=> pastAppointments.at > MidnightUTC(appt) )

\* In Tokyo, where the day began nine hours earlier: the appointment of
\* 2025-11-17 was read as upcoming at 2025-11-17T00:00Z, which is 29388960
\* minutes after 1970-01-01T00:00Z, and as past one minute later.
C22_Witness ==
  /\ timezoneOffset = -540
  /\ appointments = mockAppointments
  /\ upcomingAppointments = [ at |-> 29388960, value |-> mockAppointments ]
  /\ pastAppointments.at = 29388961
  /\ Len(pastAppointments.value) = 2
  /\ pastAppointments.value[1] = mockAppointment

\* C30: at every instant and for every ledger, entries with a missing or
\* unparsable date included, the two lists computed at that instant have
\* no appointment in common and hold every appointment of the ledger
\* exactly once between them, so that their lengths add up to
\* appointmentCount; and computing them leaves the ledger and its order as
\* they were.
C30_ViewsPartitionLedger ==
  [][ lastCall'.op \in { "upcomingAppointments", "pastAppointments" } =>
        /\ appointments' = appointments
        /\ ( /\ Computed(upcomingAppointments')
             /\ Computed(pastAppointments')
             /\ upcomingAppointments'.at = pastAppointments'.at ) =>
             /\ \A k \in 1..Len(appointments') :
                  InView(upcomingAppointments', appointments'[k])
                    # InView(pastAppointments', appointments'[k])
             /\ Len(upcomingAppointments'.value) + Len(pastAppointments'.value)
                  = appointmentCount(appointments')
    ]_vars

====
